---- MODULE Spec2Model ----
(***************************************************************************)
(* The module composition scheme of packages/server/src/@trpc/modules.test *)
(* (buildApi, createBuilder, the core and extension modules).              *)
(*                                                                         *)
(* The file is a type-level test: what a builder exposes is computed by    *)
(* the type operators Spread, UnionToIntersection and Builder, while the   *)
(* function bodies either fold the modules' builderProps (buildApi) or     *)
(* throw 'Not implemented' (createBuilder, the two init stubs).  A state   *)
(* therefore carries both what tsc computes for each statement of a script *)
(* (the static part) and what executing the statement does (the run-time   *)
(* part).  A thrown exception is the result of the call that threw.        *)
(*                                                                         *)
(* A type is a set of atoms (a union of its members); an object type is a  *)
(* function from property names to types.                                  *)
(***************************************************************************)
EXTENDS Integers, Sequences, FiniteSets, TLC

VARIABLES
    implemented,  \* the module names whose init() has a body that returns
    apis,         \* one record per buildApi(...) call of the script
    objects,      \* the heap of builderProps accumulator objects
    builders,     \* the builder expression chain: createBuilder(), then calls
    diag,         \* tsc's diagnostic for the last statement
    \* The chat channel router (isTyping, whoIsTyping, the sweep):
    now,             \* Date.now(), in seconds
    lastSweep,       \* when the interval timer last fired (0: when it was set)
    currentlyTyping, \* channelId -> name -> {lastTyped}
    channelKeys,     \* the keys of currentlyTyping in insertion order
    lastEmits,       \* the isTypingUpdate events the last handler emitted
    listening,       \* whether the subscription's listener is registered on ee
    queue,           \* events the listener has received and not yet handed on
    sub              \* the whoIsTyping subscription (one async generator)

apiVars == <<implemented, apis, objects, builders, diag>>

chatVars ==
    <<now, lastSweep, currentlyTyping, channelKeys, lastEmits, listening,
      queue, sub>>

vars == <<apiVars, chatVars>>

-----------------------------------------------------------------------------
(* Bounds *)

MaxModules == 2    \* longest module list passed to buildApi
MaxChain == 3      \* most chained calls after createBuilder()
MaxTime == 6       \* the clock stops here, in seconds
MaxQueue == 2      \* most events waiting in the subscription's iterator

\* The two compositions a script makes: a composition and a second,
\* independent one to compare it with.
Compositions == {1, 2}

-----------------------------------------------------------------------------
(* Types *)

\* type Spread<TType, TWith>: keys of both, TWith's member where it has one.
SpreadKeepFirst(TType, TWith) ==
    [K \in DOMAIN TType \cup DOMAIN TWith |->
        IF K \in DOMAIN TType THEN TType[K] ELSE TWith[K]]

Spread(TType, TWith) ==
    [K \in DOMAIN TType \cup DOMAIN TWith |->
        IF K \in DOMAIN TWith THEN TWith[K] ELSE TType[K]]

\* const core = Symbol('core'); const extension = Symbol('extension');
\* ModuleName = keyof MiddlewareModules<any>
ModuleName == {"core", "extension"}

\* { _________ADDED_FROM_CORE_________: 'bar' }
AddedFromCore == [f \in {"_________ADDED_FROM_CORE_________"} |-> {"'bar'"}]

\* interface CoreModuleBuilder<TOptions>: coreFn returns
\* Builder<Spread<TOptions, {added}>>.  An operation is mapped to the
\* TOptions of the builder it returns.
CoreModuleBuilderNarrowed(TOptions) ==
    [op \in {"coreFn"} |->
        Spread(TOptions, [f \in {"$module"} |-> {"core"}])]

CoreModuleBuilder(TOptions) ==
    [op \in {"coreFn"} |-> Spread(TOptions, AddedFromCore)]

\* interface ExtensionModuleBuilder<TOptions>: extFn returns Builder<TOptions>.
ExtensionModuleBuilder(TOptions) ==
    [op \in {"extFn"} |-> TOptions]

\* interface MiddlewareModules<TOptions>, its two merged declarations.
MiddlewareModules(TOptions) ==
    [n \in ModuleName |->
        [pipeProps |-> IF n = "core"
                       THEN {"$module", "ctx", "ctx_overrides", "meta", "core"}
                       ELSE {"ext"},
         builderProps |-> IF n = "core"
                          THEN CoreModuleBuilder(TOptions)
                          ELSE ExtensionModuleBuilder(TOptions)]]

\* type UnionToIntersection<T> of a union of object types: the object type
\* with every member's properties.  (A property of two members would get the
\* intersection of their types; the declared modules share no property.)
UnionToIntersection(T) ==
    [k \in UNION {DOMAIN t : t \in T} |->
        (CHOOSE t \in T : k \in DOMAIN t)[k]]

\* type Builder<TOptions>
BuilderOfAllModules(TOptions) ==
    UnionToIntersection(
        {MiddlewareModules(TOptions)[n].builderProps : n \in ModuleName})

Builder(TOptions) ==
    UnionToIntersection(
        {MiddlewareModules(TOptions)[n].builderProps : n \in TOptions["$module"]})

\* { ctx: object; meta: object; ctx_overrides: object }
BaseShape ==
    [f \in {"ctx", "meta", "ctx_overrides"} |-> {"object"}]

\* The return type of createBuilder<TOptions>() where $Name is Name:
\* Builder<Spread<Spread<base, TOptions>, { $module: $Name }>>, as the
\* TOptions of that builder.
CreateBuilderOverridable(Name, TOptions) ==
    Spread(Spread(BaseShape, [f \in {"$module"} |-> Name]), TOptions)

CreateBuilderType(Name, TOptions) ==
    Spread(Spread(BaseShape, TOptions), [f \in {"$module"} |-> Name])

\* The type arguments given to createBuilder (TOptions extends
\* Partial<MiddlewareOptions>): none, the tests' ctx, and one that names a
\* module and a module option itself.
Overrides ==
    { <<>>,
      [f \in {"ctx"} |-> {"{foo:'bar'}"}],
      [f \in {"$module", "core"} |->
          IF f = "$module" THEN {"extension"} ELSE {"true"}] }

\* TModules extends [Module<any>, ...Module<any>[]]
AnyModuleArray(modules) == TRUE

IsModuleTuple(modules) == Len(modules) >= 1

\* type $Name = TModules[number]['name']
NameOf(modules) == {modules[i] : i \in 1..Len(modules)}

-----------------------------------------------------------------------------
(* Run time *)

\* module.init() of the module at index i of the list: the stubs of the file
\* throw; an implemented init returns builderProps of the declared shape,
\* whose operations are identified by the descriptor they come from.
init(name, i) ==
    IF name \in implemented
    THEN [threw |-> FALSE,
          builderProps |->
            [op \in DOMAIN MiddlewareModules(<<>>)[name].builderProps |-> i]]
    ELSE [threw |-> TRUE, builderProps |-> <<>>]

\* The orders modules.map visits the modules in: ascending index only.
ReverseOrders(n) == {[k \in 1..n |-> n + 1 - k]}

AnyOrders(n) ==
    {o \in [1..n -> 1..n] : \A i \in 1..n : \E k \in 1..n : o[k] = i}

MapOrders(n) == {[k \in 1..n |-> k]}

\* The orders for..of visits initializedModules in: ascending index only.
ForOfOrders(n) == {[k \in 1..n |-> k]}

\* modules.map((module) => module.init()): the indices whose init was
\* called, in call order, up to the first one that throws.
RECURSIVE InitCalls(_, _, _)
InitCalls(modules, order, k) ==
    IF k > Len(order) THEN <<>>
    ELSE IF init(modules[order[k]], order[k]).threw THEN <<order[k]>>
    ELSE <<order[k]>> \o InitCalls(modules, order, k + 1)

MapThrew(modules, calls) ==
    calls # <<>> /\ init(modules[calls[Len(calls)]], calls[Len(calls)]).threw

\* Object.assign(target, source)
ObjectAssignKeepTarget(target, source) ==
    [k \in DOMAIN target \cup DOMAIN source |->
        IF k \in DOMAIN target THEN target[k] ELSE source[k]]

ObjectAssign(target, source) ==
    [k \in DOMAIN target \cup DOMAIN source |->
        IF k \in DOMAIN source THEN source[k] ELSE target[k]]

\* for (const module of initializedModules) Object.assign(builderProps, ...)
RECURSIVE AssignAll(_, _, _, _)
AssignAll(target, modules, order, k) ==
    IF k > Len(order) THEN target
    ELSE AssignAll(
            ObjectAssign(target, init(modules[order[k]], order[k]).builderProps),
            modules, order, k + 1)

\* const builderProps = {}: a new object at every call.
SharedObject(heap) == 1

NewObject(heap) == Len(heap) + 1

\* The heap with the object at ref set to value.
Store(heap, ref, value) ==
    IF ref \in 1..Len(heap) THEN [heap EXCEPT ![ref] = value]
    ELSE Append(heap, value)

-----------------------------------------------------------------------------
(* The script *)

NoDiag == [code |-> "none", op |-> "none"]

ModuleLists ==
    UNION {[1..n -> ModuleName] : n \in 0..MaxModules}

\* The chat router as its module is loaded: nobody typing, the interval
\* timer set, no subscription running.
ChatInit ==
    /\ now = 0
    /\ lastSweep = 0
    /\ currentlyTyping = <<>>
    /\ channelKeys = <<>>
    /\ lastEmits = <<>>
    /\ listening = FALSE
    /\ queue = <<>>
    /\ sub = [pc |-> "idle", from |-> "none", channelId |-> "none",
              lastIsTyping |-> "", idx |-> "", out |-> {}]

Init ==
    /\ implemented \in SUBSET ModuleName
    /\ apis = <<>>
    /\ objects = <<>>
    /\ builders = <<>>
    /\ diag = NoDiag
    /\ ChatInit

\* The type of the object buildApi returns: its createBuilder, by TOptions.
ApiType(modules) ==
    [TOptions \in Overrides |-> CreateBuilderType(NameOf(modules), TOptions)]

\* const api = buildApi(modules), accepted by tsc.
BuildApi(modules) ==
    /\ Len(apis) < Cardinality(Compositions)
    /\ IsModuleTuple(modules)
    /\ \E mapOrder \in MapOrders(Len(modules)),
          forOrder \in ForOfOrders(Len(modules)) :
        LET calls == InitCalls(modules, mapOrder, 1)
            ref == NewObject(objects)
            start == IF ref \in 1..Len(objects) THEN objects[ref] ELSE <<>>
        IN  IF MapThrew(modules, calls)
            THEN /\ apis' = Append(apis,
                        [modules |-> modules, names |-> NameOf(modules),
                         createBuilder |-> ApiType(modules),
                         outcome |-> "threw", initCalls |-> calls,
                         assigned |-> <<>>, props |-> 0])
                 /\ objects' = objects
            ELSE /\ apis' = Append(apis,
                        [modules |-> modules, names |-> NameOf(modules),
                         createBuilder |-> ApiType(modules),
                         outcome |-> "returned", initCalls |-> calls,
                         assigned |-> forOrder, props |-> ref])
                 /\ objects' = Store(objects, ref,
                                     AssignAll(start, modules, forOrder, 1))
    /\ diag' = NoDiag
    /\ UNCHANGED <<implemented, builders, chatVars>>

\* buildApi(modules) with a list the parameter type does not admit: TS2345.
BuildApiRejected(modules) ==
    /\ Len(apis) < Cardinality(Compositions)
    /\ ~IsModuleTuple(modules)
    /\ diag' = [code |-> "TS2345", op |-> "buildApi"]
    /\ UNCHANGED <<implemented, apis, objects, builders, chatVars>>

\* The body of createBuilder, called on the object a buildApi call returned:
\* throw new Error('Not implemented').  A buildApi call that threw returned
\* no object to call it on.
CreateBuilderReturns(api) ==
    IF api.outcome = "returned" THEN "returned" ELSE "unreached"

CreateBuilderRun(api) ==
    IF api.outcome = "returned" THEN "threw" ELSE "unreached"

\* const builder = api.createBuilder<TOptions>(): typed by the api's type.
CreateBuilder(a, TOptions) ==
    /\ builders = <<>>
    /\ a \in 1..Len(apis)
    /\ builders' = <<[via |-> "createBuilder", api |-> a,
                      overrides |-> TOptions,
                      opts |-> apis[a].createBuilder[TOptions],
                      rt |-> CreateBuilderRun(apis[a])]>>
    /\ diag' = NoDiag
    /\ UNCHANGED <<implemented, apis, objects, chatVars>>

\* last.op(), op a property of the builder type.  No builder exists at run
\* time (createBuilder threw), so the call is typed only.
CallOp(op) ==
    /\ builders # <<>>
    /\ Len(builders) <= MaxChain
    /\ LET last == builders[Len(builders)]
       IN  /\ op \in DOMAIN Builder(last.opts)
           /\ builders' = Append(builders,
                    [via |-> op, api |-> last.api,
                     overrides |-> last.overrides,
                     opts |-> Builder(last.opts)[op],
                     rt |-> "unreached"])
    /\ diag' = NoDiag
    /\ UNCHANGED <<implemented, apis, objects, chatVars>>

\* last.op(), op no property of the builder type: TS2339.
CallRejected(op) ==
    /\ builders # <<>>
    /\ op \notin DOMAIN Builder(builders[Len(builders)].opts)
    /\ diag' = [code |-> "TS2339", op |-> op]
    /\ UNCHANGED <<implemented, apis, objects, builders, chatVars>>

OpNames == DOMAIN BuilderOfAllModules(<<>>)

Next ==
    \/ \E modules \in ModuleLists : BuildApi(modules)
    \/ \E modules \in ModuleLists : BuildApiRejected(modules)
    \/ \E a \in Compositions, TOptions \in Overrides : CreateBuilder(a, TOptions)
    \/ \E op \in OpNames : CallOp(op)
    \/ \E op \in OpNames : CallRejected(op)

Spec == Init /\ [][Next]_vars

-----------------------------------------------------------------------------
(* The chat channel router *)

\* }, 3e3): the period of the interval timer, in seconds.
SweepPeriod == 3

\* now - value.lastTyped.getTime() > 3e3, in seconds.
MaxAge == 3

\* // every 1s, clear old "isTyping"
CommentedPeriod == 1

\* channelId: z.string().uuid()
Channels == {"c1", "c2"}

\* opts.ctx.user.name, any string; listed in the order of Array.prototype.sort
\* (UTF-16 code units).
NameOrder == <<"a", "a,b", "b">>

Names == {NameOrder[i] : i \in 1..Len(NameOrder)}

\* Object.keys(who)
ObjectKeys(who) == DOMAIN who

\* keys.toSorted()
toSorted(keys) == SelectSeq(NameOrder, LAMBDA n : n \in keys)

\* list.toString(): the elements joined by commas.
RECURSIVE toString(_)
toString(list) ==
    IF list = <<>> THEN ""
    ELSE IF Len(list) = 1 THEN list[1]
    ELSE list[1] \o "," \o toString(Tail(list))

\* currentlyTyping[channelId] ?? {}
TypersOf(channelId) ==
    IF channelId \in DOMAIN currentlyTyping THEN currentlyTyping[channelId]
    ELSE <<>>

\* The record an event's who refers to.  An event carries the record object
\* of a channel, not a copy: reading it gives the record as it is now.
Deref(who) == TypersOf(who)

\* ee.emit('isTypingUpdate', ...) of the events, in order: each goes to the
\* listener of the subscription if one is registered, and nowhere otherwise.
Received(events) == IF listening THEN queue \o events ELSE queue

\* delete typers[name] / typers[name] = { lastTyped: new Date() }
SetTypingKeepsOnStop(typers, name, typing, date) ==
    [k \in DOMAIN typers \cup (IF typing THEN {name} ELSE {}) |->
        IF k = name /\ typing THEN [lastTyped |-> date] ELSE typers[k]]

SetTyping(typers, name, typing, date) ==
    IF typing
    THEN [k \in DOMAIN typers \cup {name} |->
            IF k = name THEN [lastTyped |-> date] ELSE typers[k]]
    ELSE [k \in DOMAIN typers \ {name} |-> typers[k]]

\* The event isTyping emits: the channel and its record object.
TypingEvent(channelId) == [channelId |-> channelId, who |-> channelId]

\* isTyping mutation by the user called name.
isTyping(channelId, name, typing) ==
    /\ Len(Received(<<TypingEvent(channelId)>>)) <= MaxQueue
    /\ currentlyTyping' =
        [c \in DOMAIN currentlyTyping \cup {channelId} |->
            IF c = channelId
            THEN SetTyping(TypersOf(channelId), name, typing, now)
            ELSE currentlyTyping[c]]
    /\ channelKeys' = IF channelId \in DOMAIN currentlyTyping
                      THEN channelKeys ELSE Append(channelKeys, channelId)
    /\ lastEmits' = <<TypingEvent(channelId)>>
    /\ queue' = Received(<<TypingEvent(channelId)>>)
    /\ UNCHANGED <<now, lastSweep, listening, sub, apiVars>>

\* if (now - value.lastTyped.getTime() > 3e3) delete typers[key]
Swept(typers, date) ==
    [k \in {n \in DOMAIN typers : ~(date - typers[n].lastTyped > MaxAge)} |->
        typers[k]]

\* updatedChannels, in the order the channels were added to the Set.
UpdatedChannels ==
    SelectSeq(channelKeys,
              LAMBDA c : Swept(currentlyTyping[c], now) # currentlyTyping[c])

\* The interval timer is due.
TimerDue == now - lastSweep >= SweepPeriod

\* The callback of setInterval.
Sweep ==
    /\ TimerDue
    /\ LET events == [i \in 1..Len(UpdatedChannels) |->
                        TypingEvent(UpdatedChannels[i])]
       IN  /\ Len(Received(events)) <= MaxQueue
           /\ lastEmits' = events
           /\ queue' = Received(events)
    /\ currentlyTyping' =
        [c \in DOMAIN currentlyTyping |-> Swept(currentlyTyping[c], now)]
    /\ lastSweep' = now
    /\ UNCHANGED <<now, channelKeys, listening, sub, apiVars>>

\* Time passes, by d seconds, while no timer is due.
Tick(d) ==
    /\ ~TimerDue
    /\ now + d <= MaxTime
    /\ now' = now + d
    /\ UNCHANGED <<lastSweep, currentlyTyping, channelKeys, lastEmits,
                   listening, queue, sub, apiVars>>

\* function* maybeYield(who), called with the given lastIsTyping: whether it
\* yields, and the idx it computed.
maybeYieldAlways(who, last) ==
    [yields |-> TRUE, idx |-> toString(toSorted(ObjectKeys(who)))]

maybeYield(who, last) ==
    LET idx == toString(toSorted(ObjectKeys(who)))
    IN  [yields |-> idx # last, idx |-> idx]

\* The generator suspended at the yield of maybeYield, the value handed out.
AtYield(from, who, idx) ==
    [sub EXCEPT !.pc = "atYield", !.from = from, !.idx = idx,
                !.out = ObjectKeys(who)]

\* The consumer's first next() on whoIsTyping({channelId}): the body runs to
\* its first suspension, either the yield of the first maybeYield or, when
\* that does not yield, the for await on ee.toIterable, which registers the
\* listener.
Start(channelId) ==
    /\ sub.pc = "idle"
    /\ LET who == TypersOf(channelId)
           m == maybeYield(who, "")
           started == [sub EXCEPT !.channelId = channelId, !.lastIsTyping = ""]
       IN  IF m.yields
           THEN /\ sub' = [started EXCEPT !.pc = "atYield", !.from = "start",
                                          !.idx = m.idx, !.out = ObjectKeys(who)]
                /\ listening' = listening
           ELSE /\ sub' = [started EXCEPT !.pc = "waiting"]
                /\ listening' = TRUE
    /\ UNCHANGED <<now, lastSweep, currentlyTyping, channelKeys, lastEmits,
                   queue, apiVars>>

\* The consumer's next() after a yielded value: lastIsTyping = idx, maybeYield
\* returns, and the body goes on to the for await.  After the first
\* maybeYield this is where ee.toIterable is called and the listener
\* registered.
Resume ==
    /\ sub.pc = "atYield"
    /\ sub' = [sub EXCEPT !.pc = "waiting", !.lastIsTyping = sub.idx]
    /\ listening' = TRUE
    /\ UNCHANGED <<now, lastSweep, currentlyTyping, channelKeys, lastEmits,
                   queue, apiVars>>

\* if (channelId === opts.input.channelId)
ForAnyChannel(channelId, input) == TRUE

ForThisChannel(channelId, input) == channelId = input

\* The for await takes the oldest event the listener received.
Deliver ==
    /\ sub.pc = "waiting"
    /\ queue # <<>>
    /\ queue' = Tail(queue)
    /\ LET event == Head(queue)
           m == maybeYield(Deref(event.who), sub.lastIsTyping)
       IN  IF ForThisChannel(event.channelId, sub.channelId) /\ m.yields
           THEN sub' = AtYield("loop", Deref(event.who), m.idx)
           ELSE sub' = sub
    /\ UNCHANGED <<now, lastSweep, currentlyTyping, channelKeys, lastEmits,
                   listening, apiVars>>

\* The calls of isTyping that are made: who is in which channel.
Typists == {<<"c1", "a">>, <<"c1", "a,b">>, <<"c1", "b">>, <<"c2", "a">>}

\* The chat router's module loaded; no script of the composition scheme.
InitChat ==
    /\ implemented = {}
    /\ apis = <<>>
    /\ objects = <<>>
    /\ builders = <<>>
    /\ diag = NoDiag
    /\ ChatInit

\* Mutations and the sweep, second by second.
NextTyping ==
    \/ Tick(1)
    \/ Sweep
    \/ \E call \in Typists, typing \in BOOLEAN :
            isTyping(call[1], call[2], typing)

SpecTyping == InitChat /\ [][NextTyping]_vars

\* A subscription among mutations and sweeps, the clock going from one timer
\* period to the next.
NextSub ==
    \/ Tick(SweepPeriod)
    \/ Sweep
    \/ \E call \in Typists, typing \in BOOLEAN :
            isTyping(call[1], call[2], typing)
    \/ \E channelId \in Channels : Start(channelId)
    \/ Resume
    \/ Deliver

SpecSub == InitChat /\ [][NextSub]_vars

-----------------------------------------------------------------------------
(* What the claims speak of *)

\* The operation names a module of the given name declares.
Contributed(name) == IF name = "core" THEN {"coreFn"} ELSE {"extFn"}

ContributedByList(modules) ==
    UNION {Contributed(modules[i]) : i \in 1..Len(modules)}

\* No two modules of the list contribute the same operation name.
DisjointCapabilities(modules) ==
    \A i, j \in 1..Len(modules) :
        i # j => Contributed(modules[i]) \cap Contributed(modules[j]) = {}

Roots == {j \in 1..Len(builders) : builders[j].via = "createBuilder"}

\* The operation set of the builder at position j of the chain.
OperationSet(j) == DOMAIN Builder(builders[j].opts)

\* C1 (union property): for a module list with pairwise disjoint capability
\* names, the builder createBuilder() is typed to return exposes exactly the
\* operation names its modules contribute, and the capability map a completed
\* buildApi call folded holds exactly those names.
C1_UnionProperty ==
    /\ \A j \in Roots :
        LET modules == apis[builders[j].api].modules
        IN  DisjointCapabilities(modules)
                => OperationSet(j) = ContributedByList(modules)
    /\ \A a \in 1..Len(apis) :
        (apis[a].outcome = "returned" /\ DisjointCapabilities(apis[a].modules))
            => DOMAIN objects[apis[a].props] = ContributedByList(apis[a].modules)

C1_Witness ==
    \E j \in Roots :
        /\ apis[builders[j].api].modules = <<"core", "extension">>
        /\ apis[builders[j].api].outcome = "returned"
        /\ OperationSet(j) = {"coreFn", "extFn"}

\* C2 (isolation): a builder from the core module alone exposes coreFn and
\* not extFn, one from the extension module alone exposes extFn and not
\* coreFn, one from both exposes both; no builder exposes an operation that no
\* module of its list contributes, a call of such an operation is rejected,
\* and no builder of the chain is the result of one.
C2_Isolation ==
    /\ \A j \in 1..Len(builders) :
        LET modules == apis[builders[j].api].modules
        IN  /\ OperationSet(j) \subseteq ContributedByList(modules)
            /\ modules = <<"core">> => OperationSet(j) = {"coreFn"}
            /\ modules = <<"extension">> => OperationSet(j) = {"extFn"}
            /\ modules = <<"core", "extension">>
                    => OperationSet(j) = {"coreFn", "extFn"}
            /\ j \notin Roots => builders[j].via \in ContributedByList(modules)
    /\ (diag.code = "TS2339" /\ builders # <<>>)
        => diag.op \notin OperationSet(Len(builders))

C2_Witness ==
    /\ diag.code = "TS2339"
    /\ diag.op = "extFn"
    /\ builders # <<>>
    /\ apis[builders[1].api].modules = <<"core">>

\* C3 (chained calls): every builder a chained call returns exposes every
\* operation the builder it was called on exposes, with the same $module; a
\* builder from [core, extension] exposes coreFn and extFn after any chain.
C3_ChainKeepsOperations ==
    \A j \in 2..Len(builders) :
        /\ OperationSet(j - 1) \subseteq OperationSet(j)
        /\ builders[j].opts["$module"] = builders[j - 1].opts["$module"]
        /\ apis[builders[j].api].modules = <<"core", "extension">>
                => {"coreFn", "extFn"} \subseteq OperationSet(j)

C3_Witness ==
    /\ Len(builders) = 4
    /\ apis[builders[1].api].modules = <<"core", "extension">>
    /\ builders[2].via = "coreFn"
    /\ builders[3].via = "extFn"
    /\ builders[4].via = "coreFn"
    /\ OperationSet(4) = {"coreFn", "extFn"}

\* The records merged, left to right, into the configuration of the builder
\* at position j: the base shape, the overrides, the $module of the
\* composition, then what each coreFn call of the chain added.
RECURSIVE Sources(_)
Sources(j) ==
    IF j \in Roots
    THEN << [f \in {"ctx", "meta", "ctx_overrides"} |-> {"object"}],
            builders[j].overrides,
            [f \in {"$module"} |-> apis[builders[j].api].names] >>
    ELSE IF builders[j].via = "coreFn"
    THEN Append(Sources(j - 1),
                [f \in {"_________ADDED_FROM_CORE_________"} |-> {"'bar'"}])
    ELSE Sources(j - 1)

\* The last of the sources that has field f.
LastWith(sources, f) ==
    CHOOSE i \in 1..Len(sources) :
        /\ f \in DOMAIN sources[i]
        /\ \A k \in (i + 1)..Len(sources) : f \notin DOMAIN sources[k]

DuplicateCapability(modules) == ~DisjointCapabilities(modules)

\* The last module of the list that contributes op.
LastContributor(modules, op) ==
    CHOOSE i \in 1..Len(modules) :
        /\ op \in Contributed(modules[i])
        /\ \A k \in (i + 1)..Len(modules) : op \notin Contributed(modules[k])

\* C5 as claimed (duplicate capability is rejected, never shadowed): a
\* list in which two modules contribute the same operation name makes
\* registration fail, and yields no composition state and no builder.
C5_DuplicateRejected ==
    \A a \in 1..Len(apis) :
        DuplicateCapability(apis[a].modules)
            => /\ apis[a].outcome = "threw"
               /\ \A j \in 1..Len(builders) : builders[j].api # a

\* C5 as amended: a duplicate operation name is not rejected.  tsc accepts the
\* list and types a builder exposing the name; a buildApi call fails only
\* when an init throws, and when it returns, each name of the capability map
\* holds the operation of the last module of the list that contributes it,
\* which has silently replaced the earlier ones.
C5_DuplicateLastWins ==
    \A a \in 1..Len(apis) :
        /\ apis[a].outcome = "threw"
            <=> \E i \in 1..Len(apis[a].modules) :
                    apis[a].modules[i] \notin implemented
        /\ ContributedByList(apis[a].modules)
                = DOMAIN Builder(apis[a].createBuilder[<<>>])
        /\ apis[a].outcome = "returned"
            => \A op \in ContributedByList(apis[a].modules) :
                    objects[apis[a].props][op]
                        = LastContributor(apis[a].modules, op)

C5_Witness ==
    \E a \in 1..Len(apis) :
        /\ apis[a].modules = <<"core", "core">>
        /\ apis[a].outcome = "returned"
        /\ objects[apis[a].props]["coreFn"] = 2
        /\ \E j \in Roots : builders[j].api = a

\* <<1, ..., n>>
UpTo(n) == [i \in 1..n |-> i]

\* C6 as claimed (init exactly once, in list order): in every buildApi call
\* the init of each module of the list is called exactly once, in list order.
C6_InitExactlyOnce ==
    \A a \in 1..Len(apis) :
        apis[a].initCalls = UpTo(Len(apis[a].modules))

\* C6 as amended: in every buildApi call init is called in list order and at
\* most once per module, each only after the earlier ones returned.  If every
\* init returns, each is called exactly once and the capability
\* contributions are folded in that same order; if an init throws, the call
\* ends there: no later init is called and nothing is folded.
C6_InitInOrder ==
    \A a \in 1..Len(apis) :
        LET n == Len(apis[a].modules)
            calls == apis[a].initCalls
        IN  /\ Len(calls) \in 1..n
            /\ calls = UpTo(Len(calls))
            /\ \A k \in 1..(Len(calls) - 1) :
                    apis[a].modules[calls[k]] \in implemented
            /\ apis[a].outcome = "returned"
                => /\ calls = UpTo(n)
                   /\ apis[a].assigned = UpTo(n)
            /\ apis[a].outcome = "threw"
                => /\ apis[a].modules[calls[Len(calls)]] \notin implemented
                   /\ apis[a].assigned = <<>>
                   /\ apis[a].props = 0

C6_Witness ==
    \E a \in 1..Len(apis) :
        /\ apis[a].modules = <<"core", "extension">>
        /\ apis[a].outcome = "returned"
        /\ apis[a].initCalls = <<1, 2>>
        /\ apis[a].assigned = <<1, 2>>

\* C6: the other case, the list of the file's own stubs, whose first init
\* throws.
C6_WitnessThrow ==
    \E a \in 1..Len(apis) :
        /\ implemented = {}
        /\ apis[a].modules = <<"core", "extension">>
        /\ apis[a].outcome = "threw"
        /\ apis[a].initCalls = <<1>>

\* C7 (empty registration is rejected): no composition and no builder comes
\* of an empty module list; a buildApi call with one is rejected (TS2345, the
\* list is no [Module, ...Module[]]) and leaves nothing createBuilder could
\* be obtained from.
C7_EmptyRejected ==
    /\ \A a \in 1..Len(apis) : Len(apis[a].modules) >= 1
    /\ \A j \in 1..Len(builders) : apis[builders[j].api].names # {}
    /\ diag.code = "TS2345" => diag.op = "buildApi"

C7_Witness ==
    /\ diag.code = "TS2345"
    /\ apis = <<>>
    /\ builders = <<>>

\* A module of the composition declares, in its pipeProps, a field that the
\* effective configuration of the builder at position j lacks.
MissingField(j) ==
    \E n \in apis[builders[j].api].names :
        ~(MiddlewareModules(<<>>)[n].pipeProps \subseteq DOMAIN builders[j].opts)

\* C8 as claimed (a missing required field fails before any operation is
\* exposed): where the effective configuration lacks a field a registered
\* module declares, no builder is produced and no operation is exposed.
C8_MissingFieldFails ==
    \A j \in 1..Len(builders) : ~MissingField(j)

\* C8 as amended: createBuilder checks no module's fields.  Whether or not
\* the effective configuration lacks a field a registered module declares,
\* its return type exposes the operations of the registered modules; executed,
\* createBuilder always throws 'Not implemented', so no builder exists at
\* run time and no operation is ever invoked there.
C8_NoFieldCheck ==
    /\ \A j \in Roots :
        /\ OperationSet(j) = ContributedByList(apis[builders[j].api].modules)
        /\ OperationSet(j) # {}
        /\ apis[builders[j].api].outcome = "returned" => builders[j].rt = "threw"
    /\ \A j \in 1..Len(builders) : builders[j].rt # "returned"

C8_Witness ==
    /\ \E j \in Roots :
        /\ MissingField(j)
        /\ apis[builders[j].api].modules = <<"extension">>
        /\ builders[j].overrides = <<>>
        /\ builders[j].rt = "threw"
    /\ Len(builders) > 1

\* C8: the other case, a configuration that lacks no declared field.
C8_WitnessNoneMissing ==
    \E j \in Roots : ~MissingField(j) /\ builders[j].rt = "threw"

-----------------------------------------------------------------------------
(* What the claims about the chat router speak of *)

\* The names typing in the subscription's channel.
TypingNow == ObjectKeys(TypersOf(sub.channelId))

\* The step is the first maybeYield of the subscription.
MaybeYieldAtStart == sub.pc = "idle" /\ sub'.pc # "idle"

\* The step is the maybeYield of the loop, for an event of the subscription's
\* channel.
MaybeYieldInLoop ==
    /\ sub.pc = "waiting"
    /\ queue # <<>>
    /\ queue' = Tail(queue)
    /\ Head(queue).channelId = sub.channelId

\* The step yields a value.
Yields == sub.pc # "atYield" /\ sub'.pc = "atYield"

C12_FirstActionYields ==
    [][MaybeYieldAtStart =>
        /\ sub'.pc = "atYield"
        /\ sub'.out = ObjectKeys(TypersOf(sub'.channelId))]_vars

\* C12: the first action of a subscription is to yield the names typing in
\* its channel, before any listener is registered, unless their sorted list
\* joined by commas is the empty string, as it is when nobody is typing: then
\* it yields nothing and goes on to register its listener and wait.
C12_FirstActionYieldsUnlessEmpty ==
    [][MaybeYieldAtStart =>
        LET keys == ObjectKeys(TypersOf(sub'.channelId))
        IN  /\ queue' = queue
            /\ IF toString(toSorted(keys)) = ""
               THEN sub'.pc = "waiting" /\ sub'.out = {} /\ listening'
               ELSE sub'.pc = "atYield" /\ sub'.out = keys /\ ~listening']_vars

\* C12: a subscription started while nobody was typing in its channel: it
\* waits for events and has yielded nothing.
C12_Witness ==
    /\ sub.pc = "waiting"
    /\ sub.from = "none"
    /\ TypingNow = {}
    /\ listening

\* C12: a subscription started while somebody was typing, at its first yield.
C12_WitnessTyping ==
    /\ sub.pc = "atYield"
    /\ sub.from = "start"
    /\ sub.out = TypingNow
    /\ sub.out # {}

\* The step is a run of the interval callback.
SweepRuns == lastSweep' # lastSweep

\* The entries of a record that are more than MaxAge older than the date.
Old(typers, date) == {n \in DOMAIN typers : date - typers[n].lastTyped > MaxAge}

\* A run of the interval callback removes the old entries of every channel,
\* leaves the others as they are, and emits one event for each channel it
\* removed an entry from and none for the others.
SweepEffect ==
    /\ DOMAIN currentlyTyping' = DOMAIN currentlyTyping
    /\ \A c \in DOMAIN currentlyTyping :
        /\ Old(currentlyTyping'[c], now) = {}
        /\ DOMAIN currentlyTyping'[c] =
                DOMAIN currentlyTyping[c] \ Old(currentlyTyping[c], now)
        /\ \A n \in DOMAIN currentlyTyping'[c] :
                currentlyTyping'[c][n] = currentlyTyping[c][n]
    /\ LET removedFrom == {c \in DOMAIN currentlyTyping :
                                Old(currentlyTyping[c], now) # {}}
       IN  /\ Len(lastEmits') = Cardinality(removedFrom)
           /\ {lastEmits'[i].channelId : i \in 1..Len(lastEmits')} = removedFrom
           /\ \A i \in 1..Len(lastEmits') :
                lastEmits'[i].who = lastEmits'[i].channelId

\* C13: the sweep runs every second, so that never more than a second has
\* passed since it last ran, and each run removes exactly the entries older
\* than 3s and emits one event for exactly the channels it removed from.
C13_SweepsEverySecond ==
    [][/\ now' - lastSweep' <= CommentedPeriod
       /\ SweepRuns => SweepEffect]_vars

\* C13: what each run of the sweep does, whenever it runs.
C13_SweepEffect == [][SweepRuns => SweepEffect]_vars

\* C13: more than a second after the last run of the sweep an entry older
\* than 3s is still in currentlyTyping.
C13_Witness ==
    /\ now - lastSweep > CommentedPeriod
    /\ \E c \in DOMAIN currentlyTyping : Old(currentlyTyping[c], now) # {}

\* C13: a sweep has just removed entries from both channels.
C13_WitnessRemoved ==
    /\ lastSweep = now
    /\ Len(lastEmits) = 2
    /\ lastEmits[1].channelId # lastEmits[2].channelId
    /\ \E c \in DOMAIN currentlyTyping : currentlyTyping[c] # <<>>

\* What a call of isTyping by the user called name is to do.
IsTypingEffect(channelId, name, typing) ==
    LET before == TypersOf(channelId)
        after == currentlyTyping'[channelId]
    IN  /\ channelId \in DOMAIN currentlyTyping'
        /\ IF typing
           THEN name \in DOMAIN after /\ after[name].lastTyped = now
           ELSE name \notin DOMAIN after
        /\ DOMAIN after \ {name} = DOMAIN before \ {name}
        /\ \A other \in DOMAIN before \ {name} : after[other] = before[other]
        /\ DOMAIN currentlyTyping' \ {channelId} =
                DOMAIN currentlyTyping \ {channelId}
        /\ \A c \in DOMAIN currentlyTyping \ {channelId} :
                currentlyTyping'[c] = currentlyTyping[c]
        /\ Len(lastEmits') = 1
        /\ lastEmits'[1].channelId = channelId
        /\ currentlyTyping'[lastEmits'[1].who] = after

\* C14: a call of isTyping leaves the caller's name in the channel's record
\* with lastTyped the time of the call when typing is true and out of it
\* when typing is false, changes no other entry of any channel, and emits
\* exactly one event, with the channel and its record, whether or not the
\* call changed anything.
C14_IsTypingEffectAndFrame ==
    [][\A call \in Typists, typing \in BOOLEAN :
        isTyping(call[1], call[2], typing) =>
            IsTypingEffect(call[1], call[2], typing)]_vars

\* C14: "a" has just said it is typing in c1, where "b" was typing before
\* and still is, as is "a" in c2.
C14_Witness ==
    /\ lastEmits = <<TypingEvent("c1")>>
    /\ DOMAIN currentlyTyping = {"c1", "c2"}
    /\ DOMAIN currentlyTyping["c1"] = {"a", "b"}
    /\ currentlyTyping["c1"]["a"].lastTyped = now
    /\ currentlyTyping["c1"]["b"].lastTyped < now
    /\ DOMAIN currentlyTyping["c2"] = {"a"}
    /\ lastSweep < now

\* C14: the first call ever was typing = false: one event, nobody typing.
C14_WitnessNothingChanged ==
    /\ lastEmits = <<TypingEvent("c2")>>
    /\ channelKeys = <<"c2">>
    /\ currentlyTyping["c2"] = <<>>

\* C15: whenever the subscription waits for events and has none left to
\* consume, the set it last yielded (empty if it yielded nothing) is the set
\* of names typing in its channel: no update is lost, whenever it was emitted.
C15_NoLostUpdate ==
    (sub.pc = "waiting" /\ queue = <<>>) => sub.out = TypingNow

\* C15: the subscription yielded {"a"} at its start and nothing since, "b"
\* began typing before its listener was registered, and it now waits with
\* no event to consume.
C15_Witness ==
    /\ sub.pc = "waiting"
    /\ sub.from = "start"
    /\ queue = <<>>
    /\ sub.out = {"a"}
    /\ TypingNow = {"a", "b"}

\* The step hands the loop an event of another channel than the
\* subscription's.
ForeignEventTaken ==
    /\ sub.pc = "waiting"
    /\ queue # <<>>
    /\ queue' = Tail(queue)
    /\ Head(queue).channelId # sub.channelId

\* C16: an event of another channel makes the subscription yield nothing
\* and leaves its lastIsTyping as it was, and every value the subscription
\* yields is the key set of the record of its own channel.
C16_ChannelIsolation ==
    [][/\ ForeignEventTaken =>
            /\ ~Yields
            /\ sub'.lastIsTyping = sub.lastIsTyping
            /\ sub'.out = sub.out
       /\ Yields => sub'.out = ObjectKeys(TypersOf(sub'.channelId))]_vars

\* C16: the subscription is about to be handed an event of another channel,
\* whose record has other names than the subscription last yielded.
C16_Witness ==
    /\ sub.pc = "waiting"
    /\ queue # <<>>
    /\ Head(queue).channelId # sub.channelId
    /\ ObjectKeys(Deref(Head(queue).who)) # sub.out
    /\ ObjectKeys(Deref(Head(queue).who)) # TypingNow
    /\ sub.out # {}

====
